---- MODULE Spec2Model ----
(***************************************************************************)
(* Model of src/main.c of the cred firmware: a run of main() over a        *)
(* pre-staged credential flash page (Spec), and runs of main() separated   *)
(* by resets (SpecRuns).  Flash is byte addressed; numeric                 *)
(* fields are little-endian as on the Cortex-M33 target; programming a     *)
(* flash location can only clear bits (new = old AND value).               *)
(*                                                                         *)
(* A 32-bit word is denoted by the integer of -2^31 .. 2^31-1 that has the *)
(* same bits (the value of the word read as int32_t), so 0xFFFFFFFF is -1. *)
(* Addresses stay far below 2^31: at most 255 entries of at most 7 + 65535 *)
(* bytes follow FIRST_CRED_ADDR, so address arithmetic never wraps.        *)
(***************************************************************************)
EXTENDS Integers, Sequences, FiniteSets, TLC

\* ------------------------------------------------------------ constants
CRED_PAGE_ADDR == 176128
FW_RESULT_CODE_ADDR == CRED_PAGE_ADDR + 4
IMEI_ADDR == FW_RESULT_CODE_ADDR + 4
\* Variant: cred_count directly after the 15 IMEI bytes.
CRED_COUNT_ADDR_packed == IMEI_ADDR + 15

CRED_COUNT_ADDR == IMEI_ADDR + 16
FIRST_CRED_ADDR == CRED_COUNT_ADDR + 1

\* 0xCA5CAD1A
MAGIC_NUMBER == -899896038
ERROR_CRED_COUNT == 255
\* 0xFFFFFFFF
BLANK_FW_RESULT == -1

IMEI_LEN == 15

\* sizeof(result_buf) in main
RESULT_BUF_LEN == 32

\* ------------------------------------------------------------ bounds
\* Size in bytes of the designated credential page (4096 on the device).
PageSize == 50
\* Largest number of entries the staging step lays out.
MaxCreds == 3

\* ------------------------------------------------------------ bytes and words
RECURSIVE BitAnd(_, _, _)
\* Bitwise AND of the low n bits of a and b.
BitAnd(a, b, n) ==
    IF n = 0 THEN 0
    ELSE ((a % 2) * (b % 2)) + 2 * BitAnd(a \div 2, b \div 2, n - 1)

\* The k-th byte (k = 0 is least significant) of v.
ByteOf(v, k) == (v \div (256 ^ k)) % 256

\* Little-endian encoding of v on n bytes.
LE(v, n) == [k \in 1..n |-> ByteOf(v, k - 1)]

PageAddrs == CRED_PAGE_ADDR .. (CRED_PAGE_ADDR + PageSize - 1)

\* The byte at address a: the page, or whatever lies outside it.
Mem(f, out, a) == IF a \in DOMAIN f THEN f[a] ELSE out

RECURSIVE Load(_, _, _, _)
\* An n-byte little-endian unsigned load at address a (*(u8_t*), *(u16_t*)).
Load(f, out, a, n) ==
    IF n = 0 THEN 0
    ELSE Mem(f, out, a) + 256 * Load(f, out, a + 1, n - 1)

\* A 32-bit load at address a (*(u32_t*), *(int*)).
LoadWord(f, out, a) ==
    LET top == Mem(f, out, a + 3)
    IN  Load(f, out, a, 3) + 16777216 * (IF top >= 128 THEN top - 256 ELSE top)

\* nrfx_nvmc_bytes_write / nrfx_nvmc_word_write: program data at a.
Program(f, a, data) ==
    [x \in DOMAIN f |->
        IF x >= a /\ x < a + Len(data)
        THEN BitAnd(f[x], data[x - a + 1], 8)
        ELSE f[x]]

\* nrfx_nvmc_byte_writable_check
ByteWritable(f, a, val) == BitAnd(f[a], val, 8) = val

\* ------------------------------------------------------------ staged record
EntryChoices ==
    { [sec_tag |-> 1, cred_type |-> 0, payload |-> <<>>],
      [sec_tag |-> -1412567295, cred_type |-> 1, payload |-> <<48>>],
      [sec_tag |-> 16909060, cred_type |-> 2, payload |-> <<171, 205>>] }

RECURSIVE SeqsUpTo(_, _)
SeqsUpTo(S, n) ==
    IF n = 0 THEN {<<>>}
    ELSE LET shorter == SeqsUpTo(S, n - 1)
         IN  shorter \cup
             {Append(s, e) : s \in {t \in shorter : Len(t) = n - 1}, e \in S}

\* [u32 sec_tag][u8 cred_type][u16 len][payload]
EntryBytes(e) ==
    LE(e.sec_tag, 4) \o <<e.cred_type>> \o LE(Len(e.payload), 2) \o e.payload

RECURSIVE RecordBytes(_)
RecordBytes(r) ==
    IF r = <<>> THEN <<>> ELSE EntryBytes(Head(r)) \o RecordBytes(Tail(r))

\* The 16-byte IMEI slot as the staging step may leave it.
ImeiSlotChoices ==
    { [k \in 1..16 |-> 255],
      [k \in 1..16 |-> IF k <= 8 THEN 255 ELSE 0],
      <<51, 53, 56, 52, 55, 50, 48, 57, 50, 51, 52, 53, 54, 55, 56, 0>> }

GuardChoices == {BLANK_FW_RESULT, 0, 7}

\* What the memory after the page holds.
OutsideChoices == {0, 255}

\* The page as staged: header fields, entries back-to-back, erased after.
Image(guard, slot, count, r) ==
    LET img == LE(MAGIC_NUMBER, 4) \o LE(guard, 4) \o slot \o <<count>>
               \o RecordBytes(r)
    IN  [a \in PageAddrs |->
            IF a - CRED_PAGE_ADDR + 1 <= Len(img)
            THEN img[a - CRED_PAGE_ADDR + 1]
            ELSE 255]

\* ------------------------------------------------------------ modem
\* Status codes of at_cmd_write (0 is success).
AtRets == {0, -5}

PowerOffReplies == { <<79, 75, 13, 10>> }

ImeiReplies ==
    { <<52, 57, 48, 49, 53, 52, 50, 48, 51, 50, 51, 55, 53, 49, 56,
        13, 10, 79, 75, 13, 10>>,
      <<13, 10, 51, 53, 56, 52, 55, 50, 48, 57, 50, 51, 52, 53, 54, 55, 56,
        13, 10, 79, 75, 13, 10>>,
      <<13, 10, 51, 53, 56, 52, 55, 50, 48, 57, 50, 51, 52, 53, 54, 55,
        13, 10, 79, 75, 13, 10>>,
      <<13, 10, 79, 75, 13, 10>> }

\* Content of the uninitialised result_buf.
StackChoices == {0, 170}

\* Status codes of nrf_inbuilt_key_write (0 is success).
KeyRets == {0, 7, -1}

\* at_cmd_write stores the NUL-terminated reply at the start of buf.
AtCmdStore(b, reply) ==
    [k \in 1..Len(b) |->
        IF k <= Len(reply) THEN reply[k]
        ELSE IF k = Len(reply) + 1 THEN 0
        ELSE b[k]]

\* strncpy(buf, "error", buf_len): the text, then NUL padding.
StrncpyError(b) ==
    LET txt == <<101, 114, 114, 111, 114>>
    IN  [k \in 1..Len(b) |-> IF k <= Len(txt) THEN txt[k] ELSE 0]

RECURSIVE StrlenFrom(_, _)
StrlenFrom(b, k) ==
    IF k > Len(b) \/ b[k] = 0 THEN k - 1 ELSE StrlenFrom(b, k + 1)

strlen(b) == StrlenFrom(b, 1)

RECURSIVE RemoveLoop_unterminated(_, _, _, _)
\* Variant: the shortened text is not terminated.
RemoveLoop_unterminated(b, i, j, len) ==
    IF i >= len
    THEN b
    ELSE IF b[i + 1] >= 32 /\ b[i + 1] <= 126
         THEN RemoveLoop_unterminated(
                  IF j # i THEN [b EXCEPT ![j + 1] = b[i + 1]] ELSE b,
                  i + 1, j + 1, len)
         ELSE RemoveLoop_unterminated(b, i + 1, j, len)

RECURSIVE RemoveLoop(_, _, _, _)
\* The for loop of remove_whitespace (i, j are the C indices).
RemoveLoop(b, i, j, len) ==
    IF i >= len
    THEN IF j < len THEN [b EXCEPT ![j + 1] = 0] ELSE b
    ELSE IF b[i + 1] >= 32 /\ b[i + 1] <= 126
         THEN RemoveLoop(IF j # i THEN [b EXCEPT ![j + 1] = b[i + 1]] ELSE b,
                         i + 1, j + 1, len)
         ELSE RemoveLoop(b, i + 1, j, len)

\* Variant: the reply is left as the modem sent it.
remove_whitespace_kept(b) == b

remove_whitespace(b) == RemoveLoop(b, 0, 0, strlen(b))

\* query_modem: the status and the buffer it leaves.
query_modem(b, st, reply) ==
    IF st # 0 THEN StrncpyError(b) ELSE remove_whitespace(AtCmdStore(b, reply))

\* ------------------------------------------------------------ state
VARIABLES
    flash,       \* the credential page, address -> byte
    outside,     \* the byte value read at any address outside the page
    staged,      \* the page as it was when main started
    rec,         \* the entries the staging step laid out
    pc,          \* position of main
    buf,         \* result_buf
    cred_count,  \* local of write_credentials
    i,           \* loop counter of write_credentials
    addr,        \* running address of write_credentials
    wc_ret,      \* pending return value of write_credentials
    status,      \* the final message of main: "none", "ok" or "error"
    reads,       \* address ranges <<lo, hi>> read or handed out in this run
    log,         \* side effects of this run so far, in order
    past         \* what the runs before the last reset did

vars == <<flash, outside, staged, rec, pc, buf, cred_count, i, addr,
          wc_ret, status, reads, log, past>>

Init ==
    /\ \E g \in GuardChoices, slot \in ImeiSlotChoices,
          r \in SeqsUpTo(EntryChoices, MaxCreds) :
         \E c \in {0, ERROR_CRED_COUNT, Len(r), Len(r) + 1} :
            /\ flash = Image(g, slot, c, r)
            /\ rec = r
    /\ staged = flash
    /\ outside \in OutsideChoices
    /\ pc = "power_off"
    /\ buf = [k \in 1..RESULT_BUF_LEN |-> 0]
    /\ cred_count = 0
    /\ i = 0
    /\ addr = 0
    /\ wc_ret = FALSE
    /\ status = "none"
    /\ reads = {}
    /\ log = <<>>
    /\ past = [programs |-> 0, keyRuns |-> 0, terminal |-> FALSE]

\* ------------------------------------------------------------ main
\* Variant: a failed modem command does not stop the run.
AfterModem_nonfatal(st, next) == next

\* Variant: after a successful command the run goes straight to the
\* credentials.
AfterModem_to_credentials(st, next) ==
    IF st # 0 THEN "finish" ELSE "write_credentials"

\* if (ret) goto finish; after each query_modem.
AfterModem(st, next) == IF st # 0 THEN "finish" ELSE next

\* ret = query_modem("AT+CFUN=0", ...), over the uninitialised buffer.
PowerOff ==
    /\ UNCHANGED past
    /\ pc = "power_off"
    /\ \E fill \in StackChoices, st \in AtRets, reply \in PowerOffReplies :
          /\ buf' = query_modem([k \in 1..RESULT_BUF_LEN |-> fill], st, reply)
          /\ log' = Append(log, [op |-> "at_cmd", cmd |-> "AT+CFUN=0", ret |-> st,
                                 reply |-> reply])
          /\ pc' = AfterModem(st, "read_imei")
          /\ status' = IF pc' = "finish" THEN "error" ELSE status
    /\ UNCHANGED <<flash, outside, staged, rec, cred_count, i, addr, wc_ret, reads>>

\* ret = query_modem("AT+CGSN", ...)
ReadImei ==
    /\ UNCHANGED past
    /\ pc = "read_imei"
    /\ \E st \in AtRets, reply \in ImeiReplies :
          /\ buf' = query_modem(buf, st, reply)
          /\ log' = Append(log, [op |-> "at_cmd", cmd |-> "AT+CGSN", ret |-> st,
                                 reply |-> reply])
          /\ pc' = AfterModem(st, "write_imei")
          /\ status' = IF pc' = "finish" THEN "error" ELSE status
    /\ UNCHANGED <<flash, outside, staged, rec, cred_count, i, addr, wc_ret, reads>>

\* Variant: only the first destination byte is checked.
ImeiWritable_first(f, b) == ByteWritable(f, IMEI_ADDR, b[1])

\* The writability loop of write_imei.
ImeiWritable(f, b) ==
    \A k \in 0..(IMEI_LEN - 1) : ByteWritable(f, IMEI_ADDR + k, b[k + 1])

\* write_imei up to and including nrfx_nvmc_bytes_write.
WriteImei ==
    /\ UNCHANGED past
    /\ pc = "write_imei"
    /\ IF ImeiWritable(flash, buf)
       THEN /\ flash' = Program(flash, IMEI_ADDR, SubSeq(buf, 1, IMEI_LEN))
            /\ log' = Append(log, [op |-> "bytes_write", addr |-> IMEI_ADDR,
                                   data |-> SubSeq(buf, 1, IMEI_LEN)])
            /\ pc' = "imei_wait"
            /\ status' = status
       ELSE /\ pc' = "finish"
            /\ status' = "error"
            /\ UNCHANGED <<flash, log>>
    /\ UNCHANGED <<outside, staged, rec, buf, cred_count, i, addr, wc_ret, reads>>

\* Variant: the poll loop is never left.
WriteDone_spin(done, next, here) == here

\* while (!nrfx_nvmc_write_done_check()) { }: the position after one poll.
WriteDone(done, next, here) == IF done THEN next ELSE here

\* while (!nrfx_nvmc_write_done_check()) in write_imei
ImeiWait ==
    /\ UNCHANGED past
    /\ pc = "imei_wait"
    /\ \E done \in BOOLEAN :
          pc' = WriteDone(done, "write_credentials", pc)
    /\ UNCHANGED <<flash, outside, staged, rec, buf, cred_count, i, addr,
                   wc_ret, status, reads, log>>

\* Variant: a generic failure code is stamped instead of the result.
write_fw_result_generic(f, result) ==
    Program(f, FW_RESULT_CODE_ADDR, LE(IF result = 0 THEN 0 ELSE 1, 4))

\* Variant: the result is never stamped.
write_fw_result_skipped(f, result) == f

\* Variant: the result is stamped at the start of the page.
write_fw_result_at_page(f, result) == Program(f, CRED_PAGE_ADDR, LE(result, 4))

\* write_fw_result up to and including nrfx_nvmc_word_write.
write_fw_result(f, result) == Program(f, FW_RESULT_CODE_ADDR, LE(result, 4))

\* Variant: only a count of 0 means that there is nothing to write.
NoCredentials_zero(count) == 0 = count

\* (0 == cred_count) || (ERROR_CRED_COUNT == cred_count)
NoCredentials(count) == (0 = count) \/ (ERROR_CRED_COUNT = count)

\* Variant: the guard is not checked.
AlreadyWritten_never(fw_result_code) == FALSE

\* BLANK_FW_RESULT != fw_result_code
AlreadyWritten(fw_result_code) == BLANK_FW_RESULT # fw_result_code

\* write_credentials: the guard and the count check.
WriteCredentials ==
    /\ UNCHANGED past
    /\ pc = "write_credentials"
    /\ LET fw_result_code == LoadWord(flash, outside, FW_RESULT_CODE_ADDR)
           count == Load(flash, outside, CRED_COUNT_ADDR, 1)
           guardRead == <<FW_RESULT_CODE_ADDR, FW_RESULT_CODE_ADDR + 3>>
           countRead == <<CRED_COUNT_ADDR, CRED_COUNT_ADDR>>
       IN  IF AlreadyWritten(fw_result_code)
           THEN /\ reads' = reads \cup {guardRead}
                /\ pc' = "finish"
                /\ status' = "error"
                /\ UNCHANGED <<cred_count, i, addr>>
           ELSE IF NoCredentials(count)
           THEN /\ reads' = reads \cup {guardRead, countRead}
                /\ cred_count' = count
                /\ pc' = "finish"
                /\ status' = "error"
                /\ UNCHANGED <<i, addr>>
           ELSE /\ reads' = reads \cup {guardRead, countRead}
                /\ cred_count' = count
                /\ addr' = FIRST_CRED_ADDR
                /\ i' = 0
                /\ pc' = "loop"
                /\ status' = status
    /\ UNCHANGED <<flash, outside, staged, rec, buf, wc_ret, log>>

\* Variant: the address is not advanced past the payload.
parse_and_write_credential_header_only(f, out, a) ==
    [sec_tag |-> LoadWord(f, out, a),
     cred_type |-> Load(f, out, a + 4, 1),
     len |-> Load(f, out, a + 5, 2),
     ptr |-> a + 7,
     next |-> a + 7]

\* parse_and_write_credential: the fields it loads and the address it leaves.
parse_and_write_credential(f, out, a) ==
    LET a1 == a + 4
        a2 == a1 + 1
        a3 == a2 + 2
        len == Load(f, out, a2, 2)
    IN  [sec_tag |-> LoadWord(f, out, a),
         cred_type |-> Load(f, out, a1, 1),
         len |-> len,
         ptr |-> a3,
         next |-> a3 + len]

\* Variant: the loop stops one entry early.
LoopContinues_short(n, count) == n + 1 < count

\* i < cred_count
LoopContinues(n, count) == n < count

\* One iteration of the for loop of write_credentials.
WriteOneCredential ==
    /\ UNCHANGED past
    /\ pc = "loop"
    /\ LoopContinues(i, cred_count)
    /\ LET p == parse_and_write_credential(flash, outside, addr)
       IN  \E ret \in KeyRets :
             LET call == [op |-> "key_write", sec_tag |-> p.sec_tag,
                          cred_type |-> p.cred_type, ptr |-> p.ptr,
                          len |-> p.len, ret |-> ret]
             IN  /\ reads' = reads \cup
                       ({<<addr, p.ptr - 1>>} \cup
                        (IF p.len > 0 THEN {<<p.ptr, p.ptr + p.len - 1>>} ELSE {}))
                 /\ addr' = p.next
                 /\ IF ret # 0
                    THEN /\ flash' = write_fw_result(flash, ret)
                         /\ log' = log \o <<call,
                                [op |-> "word_write", addr |-> FW_RESULT_CODE_ADDR,
                                 value |-> ret]>>
                         /\ wc_ret' = FALSE
                         /\ pc' = "result_wait"
                         /\ i' = i
                    ELSE /\ log' = Append(log, call)
                         /\ i' = i + 1
                         /\ UNCHANGED <<flash, wc_ret, pc>>
    /\ UNCHANGED <<outside, staged, rec, buf, cred_count, status>>

\* The loop has run out: write_fw_result(0x00).
RecordSuccess ==
    /\ UNCHANGED past
    /\ pc = "loop"
    /\ ~LoopContinues(i, cred_count)
    /\ flash' = write_fw_result(flash, 0)
    /\ log' = Append(log, [op |-> "word_write", addr |-> FW_RESULT_CODE_ADDR,
                           value |-> 0])
    /\ wc_ret' = TRUE
    /\ pc' = "result_wait"
    /\ UNCHANGED <<outside, staged, rec, buf, cred_count, i, addr, status, reads>>

\* while (!nrfx_nvmc_write_done_check()) in write_fw_result, then the return
\* of write_credentials to main.
ResultWait ==
    /\ UNCHANGED past
    /\ pc = "result_wait"
    /\ \E done \in BOOLEAN :
          /\ pc' = WriteDone(done, "finish", pc)
          /\ status' = IF pc' = "finish"
                        THEN IF wc_ret THEN "ok" ELSE "error"
                        ELSE status
    /\ UNCHANGED <<flash, outside, staged, rec, buf, cred_count, i, addr,
                   wc_ret, reads, log>>

\* finish: while(true) {}
Finish ==
    /\ pc = "finish"
    /\ UNCHANGED vars

Next ==
    \/ PowerOff
    \/ ReadImei
    \/ WriteImei
    \/ ImeiWait
    \/ WriteCredentials
    \/ WriteOneCredential
    \/ RecordSuccess
    \/ ResultWait
    \/ Finish

Spec == Init /\ [][Next]_vars

\* The poll loops and the steps of main are taken while they can be: every
\* modem command returns and every write-done poll eventually reports done.
SpecLive == Spec /\ WF_vars(Next)

\* ------------------------------------------------------------ resets
\* Saturating count.
UpTo2(n) == IF n > 2 THEN 2 ELSE n

\* A reset of the halted device: main starts again over the same flash.
Reset ==
    /\ pc = "finish"
    /\ past' =
          [programs |->
              UpTo2(past.programs
                    + Len(SelectSeq(log, LAMBDA e : e.op = "word_write"))),
           keyRuns |->
              UpTo2(past.keyRuns
                    + (IF \E k \in 1..Len(log) : log[k].op = "key_write"
                       THEN 1 ELSE 0)),
           terminal |->
              \/ past.terminal
              \/ LoadWord(flash, outside, FW_RESULT_CODE_ADDR) # BLANK_FW_RESULT]
    /\ staged' = flash
    /\ pc' = "power_off"
    /\ buf' = [k \in 1..RESULT_BUF_LEN |-> 0]
    /\ cred_count' = 0
    /\ i' = 0
    /\ addr' = 0
    /\ wc_ret' = FALSE
    /\ status' = "none"
    /\ reads' = {}
    /\ log' = <<>>
    /\ UNCHANGED <<flash, outside, rec>>

\* The devices followed over resets: an erased imei field.
InitRuns ==
    /\ Init
    /\ \A k \in 0..15 : flash[IMEI_ADDR + k] = 255
    /\ outside = 255

NextRuns == Next \/ Reset

SpecRuns == InitRuns /\ [][NextRuns]_vars

\* ------------------------------------------------------------ query_modem alone
\* Bytes a modem reply is made of (a reply is a C string: no NUL).
ReplyByteChoices == {10, 31, 32, 57, 126, 127, 200}

\* Longest reply tried.
MaxReplyLen == 3

\* ret = query_modem(...) over the buffer the first command left, for any
\* reply.
QueryAny ==
    /\ UNCHANGED past
    /\ pc = "read_imei"
    /\ \E st \in AtRets, reply \in SeqsUpTo(ReplyByteChoices, MaxReplyLen) :
          /\ buf' = query_modem(buf, st, reply)
          /\ log' = Append(log, [op |-> "at_cmd", cmd |-> "AT+CGSN", ret |-> st,
                                 reply |-> reply])
          /\ pc' = AfterModem(st, "write_imei")
          /\ status' = IF pc' = "finish" THEN "error" ELSE status
    /\ UNCHANGED <<flash, outside, staged, rec, cred_count, i, addr, wc_ret, reads>>

InitQuery ==
    /\ Init
    /\ rec = <<>>
    /\ flash = Image(BLANK_FW_RESULT, [k \in 1..16 |-> 255], 0, <<>>)
    /\ outside = 255

NextQuery == PowerOff \/ QueryAny

SpecQuery == InitQuery /\ [][NextQuery]_vars

\* ------------------------------------------------------------ observations
\* The key-store calls made so far, in order.
KeyWrites == SelectSeq(log, LAMBDA e : e.op = "key_write")

\* The flash program operations made so far, in order.
FlashPrograms ==
    SelectSeq(log, LAMBDA e : e.op = "bytes_write" \/ e.op = "word_write")

\* The programs of the result-code word made so far.
ResultPrograms == SelectSeq(log, LAMBDA e : e.op = "word_write")

\* The modem commands issued so far.
ModemCommands == SelectSeq(log, LAMBDA e : e.op = "at_cmd")

\* fw_result_code and cred_count as staged, and fw_result_code now.
Guard0 == LoadWord(staged, outside, FW_RESULT_CODE_ADDR)
Count0 == staged[CRED_COUNT_ADDR]
ResultNow == LoadWord(flash, outside, FW_RESULT_CODE_ADDR)

Halted == pc = "finish"

ModemFailed == \E k \in 1..Len(ModemCommands) : ModemCommands[k].ret # 0

\* Both modem commands have succeeded.
ModemDone ==
    /\ Len(ModemCommands) = 2
    /\ \A k \in 1..2 : ModemCommands[k].ret = 0

\* write_imei has been entered and some destination byte is not writable.
ImeiRejected ==
    /\ ModemDone
    /\ pc # "write_imei"
    /\ \E k \in 0..(IMEI_LEN - 1) :
          BitAnd(staged[IMEI_ADDR + k], buf[k + 1], 8) # buf[k + 1]

KeyWriteFailed == \E k \in 1..Len(KeyWrites) : KeyWrites[k].ret # 0

\* write_credentials has read cred_count.
CountWasRead == <<CRED_COUNT_ADDR, CRED_COUNT_ADDR>> \in reads

PageEnd == CRED_PAGE_ADDR + PageSize

\* ------------------------------------------------------------ C1
\* C1 (idempotency): whenever the run started with fw_result_code different
\* from the blank sentinel, no flash program operation and no key-store write
\* has been performed, and fw_result_code is as it was.
C1_Idempotency ==
    Guard0 # BLANK_FW_RESULT =>
        /\ FlashPrograms = <<>>
        /\ KeyWrites = <<>>
        /\ ResultNow = Guard0

\* ------------------------------------------------------------ C2
RECURSIVE SumHeadersAndLens(_, _)
\* The bytes taken by the first n calls' entries: 7 + len each.
SumHeadersAndLens(K, n) ==
    IF n = 0 THEN 0 ELSE SumHeadersAndLens(K, n - 1) + 7 + K[n].len

\* C2 (fail-fast): the key-store calls are made on consecutive entries from
\* FIRST_CRED_ADDR, at most cred_count of them; only the last call made can
\* have failed; and once a call has failed with code c no further call is
\* made, the run is past the loop, exactly one result-code program was done,
\* with value c, and fw_result_code holds exactly c.
C2_FailFast ==
    LET K == KeyWrites
    IN  /\ \A k \in 1..Len(K) :
              /\ K[k].ptr = FIRST_CRED_ADDR + SumHeadersAndLens(K, k - 1) + 7
              /\ k < Len(K) => K[k].ret = 0
        /\ Len(K) > 0 => /\ Guard0 = BLANK_FW_RESULT
                         /\ Count0 \in 1..254
                         /\ Len(K) <= Count0
        /\ KeyWriteFailed =>
              /\ pc \in {"result_wait", "finish"}
              /\ Len(ResultPrograms) = 1
              /\ ResultPrograms[1].value = K[Len(K)].ret
              /\ log[Len(log)].op = "word_write"
              /\ ResultNow = K[Len(K)].ret

\* Two entries written, the second failing with 7, a third never attempted.
C2_Witness ==
    /\ Halted
    /\ Count0 = 3
    /\ Len(rec) = 3
    /\ Len(KeyWrites) = 2
    /\ KeyWrites[1].ret = 0
    /\ KeyWrites[2].ret = 7
    /\ ResultNow = 7

C4_ImeiAtomic ==
    ImeiRejected =>
        /\ Halted
        /\ flash = staged
        /\ FlashPrograms = <<>>
        /\ reads = {}
        /\ KeyWrites = <<>>

\* The first destination byte is writable and a later one is not.
C4_Witness ==
    /\ ImeiRejected
    /\ Halted
    /\ BitAnd(staged[IMEI_ADDR], buf[1], 8) = buf[1]
    /\ staged[IMEI_ADDR] # buf[1]

\* ------------------------------------------------------------ C5
\* The staged entries do not fit between FIRST_CRED_ADDR and the page end.
RecordOverruns ==
    /\ Count0 = Len(rec)
    /\ Count0 >= 1
    /\ FIRST_CRED_ADDR + Len(RecordBytes(rec)) > PageEnd

\* C5 (truncation safety): for a record whose entries extend past the end of
\* the page, no address outside the page is read or handed to the key store,
\* and a run that got to the entries ends in failure.
C5_TruncationSafe ==
    RecordOverruns =>
        /\ \A r \in reads : r[1] >= CRED_PAGE_ADDR /\ r[2] < PageEnd
        /\ (Halted /\ CountWasRead) => status = "error"

\* ------------------------------------------------------------ C6
\* The staged record has cred_count entries and lies within the page.
RecordFits ==
    /\ Count0 = Len(rec)
    /\ Count0 >= 1
    /\ FIRST_CRED_ADDR + Len(RecordBytes(rec)) <= PageEnd

RECURSIVE RecordOffset(_, _)
\* The sum of 7 + len over the first n staged entries.
RecordOffset(r, n) ==
    IF n = 0 THEN 0 ELSE RecordOffset(r, n - 1) + 7 + Len(r[n].payload)

\* The len bytes that a key-store call is pointed at.
PayloadAt(ptr, len) == [m \in 1..len |-> Mem(flash, outside, ptr + m - 1)]

\* C6 (parser round-trip): for a staged record of k entries laid out from
\* FIRST_CRED_ADDR, while every key-store call has succeeded the n-th call
\* received the n-th entry's sec_tag, cred_type and payload (with its length),
\* the running address after n calls is FIRST_CRED_ADDR plus the sum of
\* 7 + len over the first n entries, and when the result code is stamped
\* exactly k calls were made.
C6_RoundTrip ==
    LET K == KeyWrites
    IN  (RecordFits /\ \A n \in 1..Len(K) : K[n].ret = 0) =>
            /\ Len(K) <= Len(rec)
            /\ \A n \in 1..Len(K) :
                  /\ K[n].sec_tag = rec[n].sec_tag
                  /\ K[n].cred_type = rec[n].cred_type
                  /\ K[n].len = Len(rec[n].payload)
                  /\ PayloadAt(K[n].ptr, K[n].len) = rec[n].payload
            /\ (pc = "loop" \/ Len(K) > 0) =>
                  /\ i = Len(K)
                  /\ addr = FIRST_CRED_ADDR + RecordOffset(rec, Len(K))
            /\ ResultPrograms # <<>> =>
                  /\ Len(K) = Len(rec)
                  /\ addr = FIRST_CRED_ADDR + Len(RecordBytes(rec))

\* Three entries of three different lengths, all written.
C6_Witness ==
    /\ RecordFits
    /\ Halted
    /\ status = "ok"
    /\ Len(KeyWrites) = 3
    /\ KeyWrites[1].len # KeyWrites[2].len
    /\ KeyWrites[2].len # KeyWrites[3].len
    /\ KeyWrites[1].len # KeyWrites[3].len

\* ------------------------------------------------------------ C7
PrintableBytes(r) == SelectSeq(r, LAMBDA b : b >= 32 /\ b <= 126)

IsDigit(b) == b \in 48..57

\* Control characters, the 15 IMEI digits, and a trailing OK status line.
MultiLineImeiReply(r) ==
    LET p == PrintableBytes(r)
    IN  /\ Len(p) = IMEI_LEN + 2
        /\ \A k \in 1..IMEI_LEN : IsDigit(p[k])
        /\ p[IMEI_LEN + 1] = 79
        /\ p[IMEI_LEN + 2] = 75
        /\ \E k \in 1..Len(r) : r[k] < 32

ImeiPrograms == SelectSeq(log, LAMBDA e : e.op = "bytes_write")

\* C7 (whitespace normalization): once the IMEI has been programmed after a
\* multi-line reply to the IMEI query, the 15 bytes of the imei field are the
\* reply's 15 digits in order: decimal digits only, no control character and
\* no character of the status line.
C7_ImeiDigits ==
    (ImeiPrograms # <<>> /\ MultiLineImeiReply(ModemCommands[2].reply)) =>
        \A k \in 1..IMEI_LEN :
            /\ IsDigit(flash[IMEI_ADDR + k - 1])
            /\ flash[IMEI_ADDR + k - 1] = PrintableBytes(ModemCommands[2].reply)[k]

\* An erased field programmed from a reply that begins with CR LF.
C7_Witness ==
    /\ Halted
    /\ ImeiPrograms # <<>>
    /\ MultiLineImeiReply(ModemCommands[2].reply)
    /\ ModemCommands[2].reply[1] = 13
    /\ staged[IMEI_ADDR] = 255
    /\ flash[IMEI_ADDR] = 51

\* ------------------------------------------------------------ C8
\* C8 (modem failure fails closed): once a modem command has returned a
\* non-success status the run is halted, it was the last command issued, no
\* flash program and no key-store write has been done and the page is as
\* staged.
C8_ModemFailClosed ==
    ModemFailed =>
        /\ Halted
        /\ ModemCommands[Len(ModemCommands)].ret # 0
        /\ Len(log) = Len(ModemCommands)
        /\ FlashPrograms = <<>>
        /\ KeyWrites = <<>>
        /\ flash = staged

\* The power-off succeeded and the IMEI query failed.
C8_Witness ==
    /\ Halted
    /\ Len(ModemCommands) = 2
    /\ ModemCommands[1].ret = 0
    /\ ModemCommands[2].ret # 0

ResultWord == FW_RESULT_CODE_ADDR .. (FW_RESULT_CODE_ADDR + 3)
ImeiField == IMEI_ADDR .. (IMEI_ADDR + IMEI_LEN - 1)

\* C10 (frame of flash mutation): every byte of the page outside the
\* fw_result_code word and the 15 bytes of the imei field is as staged (the
\* magic word, cred_count, every entry byte), and every program operation
\* done is the 15-byte IMEI program or the result-code word program.
C10_Frame ==
    /\ \A a \in PageAddrs \ (ResultWord \cup ImeiField) : flash[a] = staged[a]
    /\ \A k \in 1..Len(FlashPrograms) :
          LET e == FlashPrograms[k]
          IN  \/ e.op = "word_write" /\ e.addr = FW_RESULT_CODE_ADDR
              \/ e.op = "bytes_write" /\ e.addr = IMEI_ADDR
                                      /\ Len(e.data) = IMEI_LEN

\* Both fields have been programmed and have changed.
C10_Witness ==
    /\ Halted
    /\ Len(FlashPrograms) = 2
    /\ Len(rec) > 0
    /\ \E a \in ResultWord : flash[a] # staged[a]
    /\ \E a \in ImeiField : flash[a] # staged[a]

\* ------------------------------------------------------------ C11
\* C11 (result code is write-once): over the runs of a device the
\* fw_result_code word is programmed at most once in total, only in a run
\* that found it blank, after the program it is not blank, and once a run
\* has ended with it not blank it keeps that value.
C11_WriteOnce ==
    /\ past.programs + Len(ResultPrograms) <= 1
    /\ ResultPrograms # <<>> =>
          /\ Guard0 = BLANK_FW_RESULT
          /\ ResultNow # BLANK_FW_RESULT
    /\ past.terminal =>
          /\ Guard0 # BLANK_FW_RESULT
          /\ ResultNow = Guard0

\* ------------------------------------------------------------ C12
\* C12 (at-most-once provisioning across resets): key-store writes are
\* attempted in at most one of the runs of a device, and a halted run that
\* attempted a key-store write has left fw_result_code not blank.
C12_ProvisionedOnce ==
    /\ past.keyRuns + (IF KeyWrites # <<>> THEN 1 ELSE 0) <= 1
    /\ (Halted /\ KeyWrites # <<>>) => ResultNow # BLANK_FW_RESULT

\* ------------------------------------------------------------ C13
\* The layout as the run uses it, with cred_count at offset c of the page
\* and the first entry at offset c + 1: the magic word at offset 0 is as
\* staged, the result word is programmed and read at offset 4, the 15 IMEI
\* bytes are programmed at offsets 8..22, cred_count is read at offset c and
\* the first entry's payload follows its 7-byte header at offset c + 1.
LayoutUsed(c) ==
    /\ LoadWord(flash, outside, CRED_PAGE_ADDR) = MAGIC_NUMBER
    /\ \A k \in 1..Len(FlashPrograms) :
          LET e == FlashPrograms[k]
          IN  \/ e.op = "word_write" /\ e.addr = CRED_PAGE_ADDR + 4
              \/ e.op = "bytes_write" /\ e.addr = CRED_PAGE_ADDR + 8
                                      /\ Len(e.data) = 15
    /\ \A r \in reads :
          \/ r = <<CRED_PAGE_ADDR + 4, CRED_PAGE_ADDR + 7>>
          \/ r = <<CRED_PAGE_ADDR + c, CRED_PAGE_ADDR + c>>
          \/ r[1] >= CRED_PAGE_ADDR + c + 1
    /\ pc \in {"loop", "result_wait"} =>
          <<CRED_PAGE_ADDR + c, CRED_PAGE_ADDR + c>> \in reads
    /\ KeyWrites # <<>> => KeyWrites[1].ptr = CRED_PAGE_ADDR + c + 1 + 7

\* C13 as stated (byte-packed layout): cred_count is at offset 23,
\* immediately after the imei field, and the first entry at offset 24.
C13_PackedLayout == LayoutUsed(23)

\* C13 as amended: magic at offset 0, fw_result_code at offset 4, the 15
\* imei bytes at offsets 8..22, one byte at offset 23 that is neither read
\* nor programmed, cred_count at offset 24 and the first entry at offset 25.
C13_LayoutWithPad ==
    /\ LayoutUsed(24)
    /\ flash[CRED_PAGE_ADDR + 23] = staged[CRED_PAGE_ADDR + 23]
    /\ \A r \in reads :
          ~(r[1] <= CRED_PAGE_ADDR + 23 /\ CRED_PAGE_ADDR + 23 <= r[2])

\* A run that programmed the IMEI, read the count and wrote a credential.
C13_Witness ==
    /\ Halted
    /\ ImeiPrograms # <<>>
    /\ CountWasRead
    /\ KeyWrites # <<>>
    /\ KeyWrites[1].sec_tag = 16909060
    /\ ResultPrograms # <<>>

\* ------------------------------------------------------------ C14
AllKeyWritesOk == \A k \in 1..Len(KeyWrites) : KeyWrites[k].ret = 0

\* C14 (success stamping): a result-code program with value 0 is done only
\* in a run that started blank with cred_count = n in 1..254 after exactly n
\* key-store writes, on consecutive entries, that all returned 0; it is the
\* only result-code program and leaves fw_result_code = 0; and a run that is
\* past the loop with every key-store write successful made exactly n of
\* them and stamped 0.
C14_SuccessStamp ==
    LET K == KeyWrites
    IN  /\ (\E k \in 1..Len(ResultPrograms) : ResultPrograms[k].value = 0) =>
              /\ Guard0 = BLANK_FW_RESULT
              /\ Count0 \in 1..254
              /\ Len(K) = Count0
              /\ AllKeyWritesOk
              /\ \A k \in 1..Len(K) :
                    K[k].ptr = FIRST_CRED_ADDR + SumHeadersAndLens(K, k - 1) + 7
              /\ Len(ResultPrograms) = 1
              /\ log[Len(log)].op = "word_write"
              /\ ResultNow = 0
        /\ (pc \in {"result_wait", "finish"} /\ K # <<>> /\ AllKeyWritesOk) =>
              /\ Len(K) = Count0
              /\ Len(ResultPrograms) = 1
              /\ ResultPrograms[1].value = 0
              /\ ResultNow = 0
        /\ (ResultNow = 0 /\ Guard0 # 0) =>
              /\ Len(ResultPrograms) = 1
              /\ ResultPrograms[1].value = 0

\* Two entries, both written, and 0 stamped.
C14_Witness ==
    /\ Halted
    /\ status = "ok"
    /\ Count0 = 2
    /\ Len(KeyWrites) = 2
    /\ Guard0 = BLANK_FW_RESULT
    /\ ResultNow = 0

\* ------------------------------------------------------------ C15
\* C15 (response normalization): after a successful modem query the buffer
\* holds the bytes of the reply that lie in 32..126, in their order, followed
\* by a NUL.
C15_Normalized ==
    LET M == ModemCommands
    IN  (M # <<>> /\ M[Len(M)].ret = 0) =>
            LET p == PrintableBytes(M[Len(M)].reply)
            IN  /\ Len(p) < RESULT_BUF_LEN
                /\ \A k \in 1..Len(p) : buf[k] = p[k]
                /\ buf[Len(p) + 1] = 0

\* A reply with a high byte before and a control character after a digit.
C15_Witness ==
    /\ Len(ModemCommands) = 2
    /\ ModemCommands[2].ret = 0
    /\ ModemCommands[2].reply = <<200, 57, 10>>
    /\ buf[1] = 57
    /\ buf[2] = 0

\* ------------------------------------------------------------ C16
\* C16 (guard blocks credential writes): in a run that started with
\* fw_result_code not blank no key-store write is made, nothing but the guard
\* word is read, fw_result_code is not programmed and keeps its value, the
\* loop is never entered and write_credentials, once entered, ends the run on
\* the error path; and once a run has ended with fw_result_code not blank
\* every later run starts with it not blank.
C16_GuardBlocks ==
    /\ Guard0 # BLANK_FW_RESULT =>
          /\ KeyWrites = <<>>
          /\ ResultPrograms = <<>>
          /\ reads \subseteq {<<FW_RESULT_CODE_ADDR, FW_RESULT_CODE_ADDR + 3>>}
          /\ pc \notin {"loop", "result_wait"}
          /\ ResultNow = Guard0
          /\ (Halted /\ reads # {}) => status = "error"
    /\ past.terminal => Guard0 # BLANK_FW_RESULT

\* A run after a provisioning run, stopped by the guard although the record
\* has entries.
C16_Witness ==
    /\ Halted
    /\ past.terminal
    /\ past.keyRuns = 1
    /\ reads = {<<FW_RESULT_CODE_ADDR, FW_RESULT_CODE_ADDR + 3>>}
    /\ Count0 \in 1..254
    /\ status = "error"

\* ------------------------------------------------------------ C17
\* C17 (termination in the idle halt): every run reaches the idle loop, the
\* number of parser iterations never passes cred_count nor 254, and from the
\* idle loop on no modem command, flash program or key-store write occurs
\* and the run stays there.
C17_ReachesIdle ==
    /\ <>Halted
    /\ [](i <= cred_count /\ i <= 254)
    /\ [][Halted => (Halted' /\ log' = log /\ flash' = flash)]_vars

\* The idle loop after the longest run: three entries written.
C17_Witness ==
    /\ Halted
    /\ i = 3
    /\ cred_count = 3
    /\ Len(log) = 7

\* ------------------------------------------------------------ C18
\* C18 (ordering of side effects): the power-off command is the first side
\* effect, the IMEI query the second and only after a successful power-off,
\* the IMEI program the third and only after a successful query, every
\* key-store write comes after the IMEI program and its completed poll, the
\* result-code program comes after at least one key-store write and is the
\* last side effect of the run.
C18_Order ==
    /\ \A k \in 1..Len(log) :
          /\ (log[k].op = "at_cmd" /\ log[k].cmd = "AT+CFUN=0") => k = 1
          /\ (log[k].op = "at_cmd" /\ log[k].cmd = "AT+CGSN") =>
                (k = 2 /\ log[1].ret = 0)
          /\ log[k].op = "bytes_write" => (k = 3 /\ log[2].ret = 0)
          /\ log[k].op = "key_write" =>
                (k >= 4 /\ log[3].op = "bytes_write"
                        /\ \A m \in 4..k : log[m].op = "key_write")
          /\ log[k].op = "word_write" =>
                (k = Len(log) /\ k >= 5 /\ log[k - 1].op = "key_write")
    /\ pc \in {"power_off", "read_imei", "write_imei", "imei_wait",
               "write_credentials"} =>
          (KeyWrites = <<>> /\ ResultPrograms = <<>>)
    /\ pc \in {"power_off", "read_imei", "write_imei"} => ImeiPrograms = <<>>

\* All five kinds of side effect in one run, the second key write failing.
C18_Witness ==
    /\ Halted
    /\ Len(log) = 6
    /\ log[4].op = "key_write"
    /\ log[5].op = "key_write"
    /\ log[5].ret = -1
    /\ log[6].op = "word_write"

====
